---- MODULE Spec2Model ----
(***************************************************************************)
(* tree_permission: reconciliation of mode / owner / group over a          *)
(* directory tree against an ordered list of regex rules                   *)
(* (plugins/modules/tree_permission.py).                                   *)
(*                                                                         *)
(* Paths and regular expressions are sequences of one-character strings.   *)
(* The file system is a fixed small tree                                   *)
(*      /r/            directory (the root)                                *)
(*      /r/d/          directory                                           *)
(*      /r/d/g         regular file                                        *)
(*      /r/f           regular file                                        *)
(*      /r/l           symbolic link, to /r/f or to /r/d (or absent)       *)
(* whose attributes (mode, uid, gid) are the mutable state.                *)
(***************************************************************************)
EXTENDS Integers, Sequences, FiniteSets, TLC

\* ------------------------------------------------------------------ bounds
MaxRules == 2

\* --------------------------------------------------------- program constants
PermBits == 4095

None == "None"

\* ------------------------------------------------------------- file system
Nodes == {"r", "d", "g", "f", "l"}

NoNode == "nonode"

Kind(n) ==
    CASE n \in {"r", "d"} -> "dir"
      [] n \in {"g", "f"} -> "file"
      [] n = "l" -> "link"

PathOf(n) ==
    CASE n = "r" -> <<"/", "r">>
      [] n = "d" -> <<"/", "r", "/", "d">>
      [] n = "g" -> <<"/", "r", "/", "d", "/", "g">>
      [] n = "f" -> <<"/", "r", "/", "f">>
      [] n = "l" -> <<"/", "r", "/", "l">>

Children(n) ==
    CASE n = "r" -> {"d", "f", "l"}
      [] n = "d" -> {"g"}
      [] OTHER -> {}

\* os.path.abspath on an absolute path: repeated separators collapse and a
\* trailing separator is dropped.
RECURSIVE Collapse(_)
Collapse(p) ==
    IF Len(p) <= 1 THEN p
    ELSE IF p[1] = "/" /\ p[2] = "/" THEN Collapse(Tail(p))
    ELSE <<p[1]>> \o Collapse(Tail(p))

abspath(p) ==
    LET c == Collapse(p)
    IN  IF Len(c) > 1 /\ c[Len(c)] = "/" THEN SubSeq(c, 1, Len(c) - 1) ELSE c

\* The directory entry a path names (the link itself for /r/l), or NoNode.
Lookup(p) ==
    LET a == abspath(p)
    IN  IF \E n \in Nodes : PathOf(n) = a
        THEN CHOOSE n \in Nodes : PathOf(n) = a
        ELSE NoNode

\* What stat/chmod/chown act on: a symbolic link is followed to its target.
Follow(n, target) == IF Kind(n) = "link" THEN target ELSE n

\* os.path.isdir follows symbolic links.
isdir(p, target) ==
    LET n == Lookup(p)
    IN  n # NoNode /\ Kind(Follow(n, target)) = "dir"

normpath(p, target) ==
    IF isdir(abspath(p), target) THEN abspath(p) \o <<"/">> ELSE abspath(p)

\* os.path.join(top, name) for a relative name.
join(top, name) ==
    IF top[Len(top)] = "/" THEN top \o <<name>> ELSE top \o <<"/", name>>

\* --------------------------------------------------------------- re.match
\* '^' + text + '$' over the regex subset: literal, '.', and atom '*'.
RECURSIVE MatchHere(_, _)
RECURSIVE MatchStar(_, _, _)
MatchHere(re, s) ==
    IF re = <<>> THEN s = <<>>
    ELSE IF Len(re) >= 2 /\ re[2] = "*"
         THEN MatchStar(re[1], SubSeq(re, 3, Len(re)), s)
         ELSE /\ s # <<>>
              /\ (re[1] = "." \/ re[1] = s[1])
              /\ MatchHere(Tail(re), Tail(s))

MatchStar(c, re, s) ==
    \/ MatchHere(re, s)
    \/ /\ s # <<>>
       /\ (c = "." \/ c = s[1])
       /\ MatchStar(c, re, Tail(s))

\* re.compile('^{}{}$'.format(root_path, path)): the compiled text.
CompilePattern(root_path, path) == root_path \o path

\* ------------------------------------------------------------ host identities
\* pwd.getpwnam / grp.getgrnam: the names the host knows, with their ids.
Passwd == ("alice" :> 1) @@ ("bob" :> 2)

Group == ("staff" :> 10) @@ ("wheel" :> 20)

Opt(v) == [set |-> TRUE, v |-> v]

Unset == [set |-> FALSE, v |-> 0]

\* ---------------------------------------------------------- argument values
\* A JSON value given for a mode: an integer, a string of digits, or null.
ModeInt(n) == [t |-> "int", s |-> <<>>, n |-> n]

ModeStr(s) == [t |-> "str", s |-> s, n |-> 0]

ModeNone == [t |-> "none", s |-> <<>>, n |-> 0]

\* A JSON value given for a boolean: true/false, a string, or null.
BoolVal(b) == [t |-> "bool", b |-> b, s |-> ""]

StrVal(s) == [t |-> "str", b |-> FALSE, s |-> s]

NullVal == [t |-> "none", b |-> FALSE, s |-> ""]

try_kwarg(kwargs, key, default_value) ==
    IF key \in DOMAIN kwargs THEN kwargs[key] ELSE default_value

\* str.lower() on the spellings used.
Lower(s) ==
    CASE s = "YES" -> "yes"
      [] s = "No" -> "no"
      [] s = "NO" -> "no"
      [] s = "True" -> "true"
      [] s = "False" -> "false"
      [] OTHER -> s

\* to_bool: ok = FALSE is the fail_json branch; truthy is the truth value of
\* the result (None is returned as None, which is false under "not").
to_bool(arg) ==
    IF arg.t = "none" THEN [ok |-> TRUE, truthy |-> FALSE]
    ELSE IF arg.t = "bool" THEN [ok |-> TRUE, truthy |-> arg.b]
    ELSE IF Lower(arg.s) \in {"y", "yes", "on", "1", "true"}
         THEN [ok |-> TRUE, truthy |-> TRUE]
    ELSE IF Lower(arg.s) \in {"n", "no", "off", "0", "false"}
         THEN [ok |-> TRUE, truthy |-> FALSE]
    ELSE [ok |-> FALSE, truthy |-> FALSE]

\* int(value, 8) on a string of decimal digit characters.
DigitVal(c) ==
    CASE c = "0" -> 0 [] c = "1" -> 1 [] c = "2" -> 2 [] c = "3" -> 3
      [] c = "4" -> 4 [] c = "5" -> 5 [] c = "6" -> 6 [] c = "7" -> 7
      [] c = "8" -> 8 [] c = "9" -> 9 [] OTHER -> 99

RECURSIVE OctalValue(_)
OctalValue(s) ==
    IF s = <<>> THEN 0
    ELSE 8 * OctalValue(SubSeq(s, 1, Len(s) - 1)) + DigitVal(s[Len(s)])

IsOctal(s) == s # <<>> /\ \A i \in 1..Len(s) : DigitVal(s[i]) <= 7

\* to_mode: None stays None, an int is taken as it is, anything else goes
\* through int(value, 8); ok = FALSE is the fail_json branch.
to_mode(value) ==
    IF value.t = "none" THEN [ok |-> TRUE, m |-> Unset]
    ELSE IF value.t = "int" THEN [ok |-> TRUE, m |-> Opt(value.n)]
    ELSE IF IsOctal(value.s) THEN [ok |-> TRUE, m |-> Opt(OctalValue(value.s))]
    ELSE [ok |-> FALSE, m |-> Unset]

\* The identity lookups of PermissionRegex.__init__: None stays None, a known
\* name gives its id, an unknown name raises KeyError (ok = FALSE).
getpwnam(name) ==
    IF name = None THEN [ok |-> TRUE, id |-> Unset]
    ELSE IF name \in DOMAIN Passwd THEN [ok |-> TRUE, id |-> Opt(Passwd[name])]
    ELSE [ok |-> FALSE, id |-> Unset]

getgrnam(name) ==
    IF name = None THEN [ok |-> TRUE, id |-> Unset]
    ELSE IF name \in DOMAIN Group THEN [ok |-> TRUE, id |-> Opt(Group[name])]
    ELSE [ok |-> FALSE, id |-> Unset]

\* PermissionRegex.__init__(root_path, kwargs). ok = FALSE when construction
\* does not return an object: KeyError for a missing 'paths', fail_json from
\* to_mode or to_bool, or an unknown user or group. decl is the position of
\* the declaration in args['regexp'].
PermissionRegex(root_path, kwargs, decl) ==
    LET file_mode == to_mode(try_kwarg(kwargs, "file_mode", ModeNone))
        dir_mode == to_mode(try_kwarg(kwargs, "dir_mode", ModeNone))
        do_files == to_bool(try_kwarg(kwargs, "do_files", BoolVal(TRUE)))
        do_dirs == to_bool(try_kwarg(kwargs, "do_dirs", BoolVal(TRUE)))
        file_uid == getpwnam(try_kwarg(kwargs, "file_owner", None))
        file_gid == getgrnam(try_kwarg(kwargs, "file_group", None))
        dir_uid == getpwnam(try_kwarg(kwargs, "dir_owner", None))
        dir_gid == getgrnam(try_kwarg(kwargs, "dir_group", None))
        paths == try_kwarg(kwargs, "paths", <<>>)
    IN  [ok |-> /\ "paths" \in DOMAIN kwargs
                /\ file_mode.ok /\ dir_mode.ok /\ do_files.ok /\ do_dirs.ok
                /\ file_uid.ok /\ file_gid.ok /\ dir_uid.ok /\ dir_gid.ok,
         pr |-> [decl |-> decl,
                 file_mode |-> file_mode.m, dir_mode |-> dir_mode.m,
                 file_uid |-> file_uid.id, file_gid |-> file_gid.id,
                 dir_uid |-> dir_uid.id, dir_gid |-> dir_gid.id,
                 do_files |-> do_files.truthy, do_dirs |-> do_dirs.truthy,
                 regex_paths |->
                     [i \in 1..Len(paths) |-> CompilePattern(root_path, paths[i])]]]

\* check_path without the two applicability tests (lines 282-285 dropped).
check_path_noflags(pr, fspath) ==
    \E i \in 1..Len(pr.regex_paths) : MatchHere(pr.regex_paths[i], fspath.path)

\* PermissionRegex.check_path(fspath)
check_path(pr, fspath) ==
    IF fspath.isfile /\ ~pr.do_files THEN FALSE
    ELSE IF fspath.isdir /\ ~pr.do_dirs THEN FALSE
    ELSE \E i \in 1..Len(pr.regex_paths) : MatchHere(pr.regex_paths[i], fspath.path)

\* ------------------------------------------------------------ system calls
\* os.lstat(path): the attributes of the entry itself, a link not followed.
lstat(disk, path) == disk[Lookup(path)]

\* os.chmod(path, mode): follows a symbolic link; only the permission bits
\* of the mode are stored.
chmod(disk, path, mode, target) ==
    [disk EXCEPT ![Follow(Lookup(path), target)].mode = mode % (PermBits + 1)]

\* os.chown(path, uid, gid): follows a symbolic link.
chown(disk, path, uid, gid, target) ==
    [disk EXCEPT ![Follow(Lookup(path), target)].uid = uid,
                 ![Follow(Lookup(path), target)].gid = gid]

\* collect_path_data(path)
collect_path_data(disk, path, target) ==
    [path |-> path,
     mode |-> lstat(disk, path).mode % (PermBits + 1),
     uid |-> lstat(disk, path).uid,
     gid |-> lstat(disk, path).gid,
     isdir |-> isdir(path, target),
     isfile |-> ~isdir(path, target)]

\* add_to_changed_list recording a path once, however many attributes change.
add_to_changed_list_dedup(changed_list, debug, path) ==
    IF debug /\ \A j \in 1..Len(changed_list) : changed_list[j] # path
    THEN Append(changed_list, path) ELSE changed_list

\* add_to_changed_list(path)
add_to_changed_list(changed_list, debug, path) ==
    IF debug THEN Append(changed_list, path) ELSE changed_list

\* --------------------------------------------------- PermissionRegex.apply
\* st = [path_data, changed, changed_list, disk, ops]; ops counts the chmod
\* and chown calls issued. One operator per "if" of apply, in its order.
ApplyMode(st, want, change_mode, debug, target) ==
    IF want.set /\ st.path_data.mode # want.v
    THEN [st EXCEPT
            !.changed = TRUE,
            !.changed_list = add_to_changed_list(@, debug, st.path_data.path),
            !.disk = IF change_mode
                     THEN chmod(@, st.path_data.path, want.v, target) ELSE @,
            !.ops = IF change_mode THEN @ + 1 ELSE @,
            !.path_data.mode = IF change_mode THEN want.v ELSE @]
    ELSE st

ApplyUid(st, want, change_mode, debug, target) ==
    IF want.set /\ st.path_data.uid # want.v
    THEN [st EXCEPT
            !.changed = TRUE,
            !.changed_list = add_to_changed_list(@, debug, st.path_data.path),
            !.disk = IF change_mode
                     THEN chown(@, st.path_data.path, want.v, st.path_data.gid, target)
                     ELSE @,
            !.ops = IF change_mode THEN @ + 1 ELSE @,
            !.path_data.uid = IF change_mode THEN want.v ELSE @]
    ELSE st

ApplyGid(st, want, change_mode, debug, target) ==
    IF want.set /\ st.path_data.gid # want.v
    THEN [st EXCEPT
            !.changed = TRUE,
            !.changed_list = add_to_changed_list(@, debug, st.path_data.path),
            !.disk = IF change_mode
                     THEN chown(@, st.path_data.path, st.path_data.uid, want.v, target)
                     ELSE @,
            !.ops = IF change_mode THEN @ + 1 ELSE @,
            !.path_data.gid = IF change_mode THEN want.v ELSE @]
    ELSE st

\* apply starting from changed = False instead of the value handed in.
apply_reset(pr, st, change_mode, debug, target) ==
    IF st.path_data.isfile
    THEN ApplyGid(ApplyUid(ApplyMode([st EXCEPT !.changed = FALSE],
                                     pr.file_mode, change_mode, debug, target),
                           pr.file_uid, change_mode, debug, target),
                  pr.file_gid, change_mode, debug, target)
    ELSE ApplyGid(ApplyUid(ApplyMode([st EXCEPT !.changed = FALSE],
                                     pr.dir_mode, change_mode, debug, target),
                           pr.dir_uid, change_mode, debug, target),
                  pr.dir_gid, change_mode, debug, target)

apply(pr, st, change_mode, debug, target) ==
    IF st.path_data.isfile
    THEN ApplyGid(ApplyUid(ApplyMode(st, pr.file_mode, change_mode, debug, target),
                           pr.file_uid, change_mode, debug, target),
                  pr.file_gid, change_mode, debug, target)
    ELSE IF st.path_data.isdir
    THEN ApplyGid(ApplyUid(ApplyMode(st, pr.dir_mode, change_mode, debug, target),
                           pr.dir_uid, change_mode, debug, target),
                  pr.dir_gid, change_mode, debug, target)
    ELSE st

\* The inner loop of main: the first rule of the (reversed) list whose
\* check_path is true; 0 when there is none.
FirstMatch(regexp, fspath) ==
    IF \E i \in 1..Len(regexp) : check_path(regexp[i], fspath)
    THEN CHOOSE i \in 1..Len(regexp) :
            /\ check_path(regexp[i], fspath)
            /\ \A j \in 1..(i - 1) : ~check_path(regexp[j], fspath)
    ELSE 0

\* ------------------------------------------------------------ iterate_fstree
Name(n) == PathOf(n)[Len(PathOf(n))]

Parent(n) == CHOOSE p \in Nodes : n \in Children(p)

Perms(S) ==
    {q \in [1..Cardinality(S) -> S] : \A i, j \in 1..Cardinality(S) : q[i] = q[j] => i = j}

\* os.walk lists a directory as dirs + files, each in the order the
\* operating system returns the names; a link to a directory is listed among
\* the dirs and is not descended into.
Listings(n, target) ==
    LET present == {c \in Children(n) : Kind(c) = "link" => target # NoNode}
        dirs == {c \in present : Kind(Follow(c, target)) = "dir"}
        files == present \ dirs
    IN  {ds \o fs : ds \in Perms(dirs), fs \in Perms(files)}

\* The sequences of entries the generator can yield: the root, the listing of
\* the root, then the listing of each real subdirectory.
WalkOrders(target) ==
    {<<"r">> \o top \o sub : top \in Listings("r", target), sub \in Listings("d", target)}

\* The directory os.walk is listing when it yields entry n.
WalkTop(root_path, n, target) ==
    IF Parent(n) = "r" THEN normpath(root_path, target)
    ELSE join(normpath(root_path, target), Name(Parent(n)))

\* The path key of entry n as iterate_fstree hands it to collect_path_data.
EntryPath(root_path, n, target) ==
    IF n = "r" THEN normpath(root_path, target)
    ELSE normpath(join(WalkTop(root_path, n, target), Name(n)), target)

\* ------------------------------------------------------------------ inputs
\* Rule declarations (the elements of args['regexp']); kw holds exactly the
\* keys the declaration gives. Modes: 420 = 0644, 493 = 0755, 448 = 0700.
DeclDefault ==
    [isdict |-> TRUE,
     kw |-> [paths |-> << <<"/", ".", "*">> >>,
             file_mode |-> ModeInt(420), dir_mode |-> ModeInt(493)]]

DeclFilesOnly ==
    [isdict |-> TRUE,
     kw |-> [paths |-> << <<"/", ".", "*">> >>,
             file_mode |-> ModeStr(<<"7", "5", "5">>), do_dirs |-> StrVal("No")]]

DeclOwners ==
    [isdict |-> TRUE,
     kw |-> [paths |-> << <<".", "*">> >>,
             file_mode |-> ModeStr(<<"0", "6", "4", "4">>),
             file_owner |-> "alice", file_group |-> "staff",
             dir_owner |-> "bob"]]

DeclExclude ==
    [isdict |-> TRUE,
     kw |-> [paths |-> << <<"/", "f">>, <<"/", "d", "/">> >>]]

DeclRoot ==
    [isdict |-> TRUE,
     kw |-> [paths |-> << <<"/">> >>,
             dir_mode |-> ModeStr(<<"7", "0", "0">>), dir_group |-> "wheel"]]

DeclLink ==
    [isdict |-> TRUE,
     kw |-> [paths |-> << <<"/", "l", ".", "*">> >>,
             file_mode |-> ModeInt(420), file_owner |-> "bob",
             dir_mode |-> ModeInt(493), dir_owner |-> "alice"]]

DeclWide ==
    [isdict |-> TRUE,
     kw |-> [paths |-> << <<"/", "d", "/", ".", "*">> >>,
             file_mode |-> ModeStr(<<"1", "0", "6", "4", "4">>)]]

DeclDirsOnly ==
    [isdict |-> TRUE,
     kw |-> [paths |-> << <<".", "*">> >>,
             do_files |-> BoolVal(FALSE), do_dirs |-> StrVal("YES"),
             file_mode |-> ModeInt(0), file_group |-> "wheel",
             dir_group |-> "staff"]]

DeclGhostOwner ==
    [isdict |-> TRUE,
     kw |-> [paths |-> << <<"/", "n", "o", "n", "e">> >>, file_owner |-> "ghost"]]

DeclBadMode ==
    [isdict |-> TRUE,
     kw |-> [paths |-> << <<".", "*">> >>, dir_mode |-> ModeStr(<<"7", "8">>)]]

DeclBadBool ==
    [isdict |-> TRUE,
     kw |-> [paths |-> << <<".", "*">> >>, do_files |-> StrVal("maybe")]]

DeclNoPaths ==
    [isdict |-> TRUE, kw |-> [file_mode |-> ModeInt(420)]]

DeclNotDict == [isdict |-> FALSE, kw |-> <<>>]

GoodDecls ==
    {DeclDefault, DeclFilesOnly, DeclOwners, DeclExclude, DeclRoot, DeclLink,
     DeclWide, DeclDirsOnly}

BadDecls == {DeclGhostOwner, DeclBadMode, DeclBadBool, DeclNoPaths, DeclNotDict}

RuleDecls == GoodDecls \cup BadDecls

RuleLists == UNION {[1..k -> RuleDecls] : k \in 0..MaxRules}

\* Spellings of the root path argument.
RootPlain == <<"/", "r">>

RootSlash == <<"/", "r", "/">>

RootIsFile == <<"/", "r", "/", "f">>

RootMissing == <<"/", "x">>

\* Attributes of the tree before the first run (384 = 0600). A symbolic link
\* has its own attributes (mode 0777 = 511).
InitDisks ==
    {[n \in Nodes |->
        CASE n = "l" -> [mode |-> 511, uid |-> 0, gid |-> 0]
          [] n = "f" -> [mode |-> fm, uid |-> 0, gid |-> 0]
          [] n = "g" -> [mode |-> 384, uid |-> 1, gid |-> 10]
          [] OTHER -> [mode |-> 493, uid |-> 0, gid |-> 0]]
     : fm \in {420, 384}}

\* The arguments file. debug_given: the key 'debug' is present; regexp_kind:
\* the key 'regexp' is a list, something else, or missing; check_mode: the
\* file carries the caller's request for a run that changes nothing (a key
\* main never reads).
ArgSet ==
    {[root_path |-> rp, regexp_kind |-> "list", regexp |-> rl,
      debug_given |-> dg, debug |-> StrVal("yes"), check_mode |-> cm]
     : rp \in {RootPlain, RootSlash}, rl \in RuleLists,
       dg \in BOOLEAN, cm \in {FALSE}}
    \cup
    {[root_path |-> RootPlain, regexp_kind |-> "list", regexp |-> <<d>>,
      debug_given |-> TRUE, debug |-> BoolVal(TRUE), check_mode |-> TRUE]
     : d \in RuleDecls}
    \cup
    {[root_path |-> rp, regexp_kind |-> rk, regexp |-> <<DeclDefault>>,
      debug_given |-> TRUE, debug |-> dv, check_mode |-> FALSE]
     : rp \in {RootPlain, RootIsFile, RootMissing},
       rk \in {"list", "other", "missing"},
       dv \in {BoolVal(FALSE), StrVal("on"), StrVal("what")}}

\* ------------------------------------------------------------------- state
VARIABLES
    args,           \* the parsed arguments file (never changes)
    target,         \* what the symbolic link /r/l points to, NoNode when the
                    \* tree has no such link (never changes)
    disk,           \* node -> [mode, uid, gid]: the attributes on disk
    pc,             \* "init", "compile", "walk", "done", "failed"
    change_mode,    \* main's local change_mode
    changed,        \* main's local changed
    debug,          \* the global debug
    changed_list,   \* the global changed_list
    regexp,         \* main's local regexp: the compiled rules, last first
    idx,            \* position of the for loop over args['regexp']
    todo,           \* entries iterate_fstree has still to yield
    result,         \* the result written to stdout
    run,            \* number of the invocation
    disk0,          \* disk when this invocation started
    ops,            \* chmod and chown calls issued by this invocation
    visits          \* the entries visited by this invocation, in order

vars ==
    <<args, target, disk, pc, change_mode, changed, debug, changed_list,
      regexp, idx, todo, result, run, disk0, ops, visits>>

NoResult == [emitted |-> FALSE, changed |-> FALSE, has_list |-> FALSE, changed_list |-> <<>>]

Init ==
    /\ args \in ArgSet
    /\ target \in {"f", "d", NoNode}
    /\ disk \in InitDisks
    /\ pc = "init"
    /\ change_mode = TRUE
    /\ changed = FALSE
    /\ debug = FALSE
    /\ changed_list = <<>>
    /\ regexp = <<>>
    /\ idx = 1
    /\ todo = <<>>
    /\ result = NoResult
    /\ run = 1
    /\ disk0 = disk
    /\ ops = 0
    /\ visits = <<>>

\* main, lines 334-361: the arguments are read and checked.
Start ==
    /\ pc = "init"
    /\ change_mode' = TRUE
    /\ changed' = FALSE
    /\ LET dbg == IF args.debug_given THEN to_bool(args.debug)
                  ELSE [ok |-> TRUE, truthy |-> FALSE]
       IN  /\ debug' = (dbg.ok /\ dbg.truthy)
           /\ pc' = IF /\ dbg.ok
                       /\ isdir(args.root_path, target)
                       /\ args.regexp_kind = "list"
                    THEN "compile" ELSE "failed"
    /\ regexp' = <<>>
    /\ idx' = 1
    /\ UNCHANGED <<args, target, disk, changed_list, todo, result, run, disk0, ops, visits>>

\* The loop over args['regexp'] passing over a declaration it cannot compile
\* instead of failing.
CompileRule_Skip ==
    /\ pc = "compile"
    /\ idx <= Len(args.regexp)
    /\ LET data == args.regexp[idx]
           c == PermissionRegex(args.root_path, data.kw, idx)
       IN  regexp' = IF data.isdict /\ c.ok THEN <<c.pr>> \o regexp ELSE regexp
    /\ idx' = idx + 1
    /\ UNCHANGED <<args, target, disk, pc, change_mode, changed, debug, changed_list,
                   todo, result, run, disk0, ops, visits>>

\* main, lines 363-366: one pass of the loop over args['regexp'].
CompileRule ==
    /\ pc = "compile"
    /\ idx <= Len(args.regexp)
    /\ LET data == args.regexp[idx]
           c == PermissionRegex(args.root_path, data.kw, idx)
       IN  IF data.isdict /\ c.ok
           THEN /\ regexp' = <<c.pr>> \o regexp
                /\ idx' = idx + 1
                /\ pc' = "compile"
           ELSE /\ pc' = "failed"
                /\ UNCHANGED <<regexp, idx>>
    /\ UNCHANGED <<args, target, disk, change_mode, changed, debug, changed_list,
                   todo, result, run, disk0, ops, visits>>

\* main, line 368, and iterate_fstree, lines 197-201: the generator starts.
StartWalk ==
    /\ pc = "compile"
    /\ idx > Len(args.regexp)
    /\ todo' \in WalkOrders(target)
    /\ pc' = "walk"
    /\ UNCHANGED <<args, target, disk, change_mode, changed, debug, changed_list,
                   regexp, idx, result, run, disk0, ops, visits>>

\* main, lines 368-372: the generator yields the next entry, read from disk
\* now; the first matching rule is applied to it.
Visit ==
    /\ pc = "walk"
    /\ todo # <<>>
    /\ \E fspath \in {collect_path_data(disk, EntryPath(args.root_path, Head(todo), target), target)} :
       \E i \in {FirstMatch(regexp, fspath)} :
       \E st \in {IF i = 0
                   THEN [path_data |-> fspath, changed |-> changed,
                         changed_list |-> changed_list, disk |-> disk, ops |-> ops]
                   ELSE apply(regexp[i],
                              [path_data |-> fspath, changed |-> changed,
                               changed_list |-> changed_list, disk |-> disk, ops |-> ops],
                              change_mode, debug, target)} :
           /\ changed' = st.changed
           /\ changed_list' = st.changed_list
           /\ disk' = st.disk
           /\ ops' = st.ops
           /\ visits' = Append(visits, [n |-> Head(todo), fspath |-> fspath, rule |-> i,
                                        after |-> st.path_data])
    /\ todo' = Tail(todo)
    /\ UNCHANGED <<args, target, pc, change_mode, debug, regexp, idx, result, run, disk0>>

\* main, lines 374-377: the result is written.
Finish ==
    /\ pc = "walk"
    /\ todo = <<>>
    /\ result' = [emitted |-> TRUE, changed |-> changed, has_list |-> debug,
                  changed_list |-> IF debug THEN changed_list ELSE <<>>]
    /\ pc' = "done"
    /\ UNCHANGED <<args, target, disk, change_mode, changed, debug, changed_list,
                   regexp, idx, todo, run, disk0, ops, visits>>

\* The module is invoked again with the same arguments file: a new process,
\* whose globals and locals start afresh (lines 157-158, 340-341).
Rerun ==
    /\ pc = "done"
    /\ run = 1
    /\ run' = run + 1
    /\ pc' = "init"
    /\ change_mode' = TRUE
    /\ changed' = FALSE
    /\ debug' = FALSE
    /\ changed_list' = <<>>
    /\ regexp' = <<>>
    /\ idx' = 1
    /\ todo' = <<>>
    /\ result' = NoResult
    /\ disk0' = disk
    /\ ops' = 0
    /\ visits' = <<>>
    /\ UNCHANGED <<args, target, disk>>

Next == Start \/ CompileRule \/ StartWalk \/ Visit \/ Finish \/ Rerun

Spec == Init /\ [][Next]_vars

\* =================================================================== claims
\* Helpers of the properties: what a rule asks of an entry of a given type.
PatMatch(pr, path) ==
    \E k \in 1..Len(pr.regex_paths) : MatchHere(pr.regex_paths[k], path)

FlagFor(pr, fspath) == IF fspath.isdir THEN pr.do_dirs ELSE pr.do_files

WantMode(pr, fspath) == IF fspath.isdir THEN pr.dir_mode ELSE pr.file_mode

WantUid(pr, fspath) == IF fspath.isdir THEN pr.dir_uid ELSE pr.file_uid

WantGid(pr, fspath) == IF fspath.isdir THEN pr.dir_gid ELSE pr.file_gid

\* The rules (positions in the compiled list) that may govern an entry.
Eligible(fspath) ==
    {i \in 1..Len(regexp) : FlagFor(regexp[i], fspath) /\ PatMatch(regexp[i], fspath.path)}

B2N(b) == IF b THEN 1 ELSE 0

\* How many of mode, owner, group a rule specifies with another value than
\* the record read at visit time.
NumDiffer(pr, fspath) ==
    B2N(WantMode(pr, fspath).set /\ WantMode(pr, fspath).v # fspath.mode)
    + B2N(WantUid(pr, fspath).set /\ WantUid(pr, fspath).v # fspath.uid)
    + B2N(WantGid(pr, fspath).set /\ WantGid(pr, fspath).v # fspath.gid)

VisitDiffers(v) == v.rule > 0 /\ NumDiffer(regexp[v.rule], v.fspath) > 0

RECURSIVE ExpectedLog(_)
ExpectedLog(vs) ==
    IF vs = <<>> THEN <<>>
    ELSE LET v == vs[Len(vs)]
             k == IF v.rule > 0 THEN NumDiffer(regexp[v.rule], v.fspath) ELSE 0
         IN  ExpectedLog(SubSeq(vs, 1, Len(vs) - 1)) \o [j \in 1..k |-> v.fspath.path]

Occurrences(seq, x) == Cardinality({j \in 1..Len(seq) : seq[j] = x})

Walking == pc \in {"walk", "done"}

\* The rule selection of C1 alone: every visited entry is governed by the
\* last-declared eligible rule, and by none when no rule is eligible.
GoverningRuleIsLastDeclared ==
    Walking =>
        \A k \in 1..Len(visits) :
            LET v == visits[k]
                E == Eligible(v.fspath)
            IN  /\ (E = {} => v.rule = 0)
                /\ (E # {} => /\ v.rule \in E
                              /\ \A j \in E : regexp[j].decl <= regexp[v.rule].decl)

\* C1: every visited entry is governed by the last-declared rule whose
\* applicability flag for the entry's type is true and one of whose patterns
\* matches the entry's path, and after the run every attribute that rule
\* specifies for the entry's type has the rule's value on the entry.
C1_LastMatchWins ==
    pc = "done" =>
        /\ GoverningRuleIsLastDeclared
        /\ \A k \in 1..Len(visits) :
              LET v == visits[k]
                  now == lstat(disk, v.fspath.path)
              IN  v.rule > 0 =>
                     LET pr == regexp[v.rule]
                     IN  /\ WantMode(pr, v.fspath).set => now.mode = WantMode(pr, v.fspath).v
                         /\ WantUid(pr, v.fspath).set => now.uid = WantUid(pr, v.fspath).v
                         /\ WantGid(pr, v.fspath).set => now.gid = WantGid(pr, v.fspath).v

\* C2: for every entry governed by a rule, each of mode, owner and group the
\* rule leaves unspecified for the entry's type has after the run the value
\* it had before the run.
C2_OnlySpecifiedTouched ==
    pc = "done" =>
        \A k \in 1..Len(visits) :
            LET v == visits[k]
            IN  v.rule > 0 =>
                   LET pr == regexp[v.rule]
                   IN  /\ ~WantMode(pr, v.fspath).set => disk[v.n].mode = disk0[v.n].mode
                       /\ ~WantUid(pr, v.fspath).set => disk[v.n].uid = disk0[v.n].uid
                       /\ ~WantGid(pr, v.fspath).set => disk[v.n].gid = disk0[v.n].gid

\* C3: an entry no rule is eligible for has after the run the mode, owner and
\* group it had before the run, and its path is not in the changed-path log.
C3_UnmatchedUntouched ==
    pc = "done" =>
        \A k \in 1..Len(visits) :
            LET v == visits[k]
            IN  Eligible(v.fspath) = {} =>
                   /\ disk[v.n] = disk0[v.n]
                   /\ Occurrences(changed_list, v.fspath.path) = 0

\* C4: a second run in succession, with the same arguments and no outside
\* change of the tree, reports changed = false and issues no chmod or chown.
C4_SecondRunUnchanged ==
    (run = 2 /\ pc = "done") => (~result.changed /\ ops = 0)

\* C5: a rule whose applicability flag for a type is false governs no entry
\* of that type and a step that applies a rule changes no file unless the
\* rule has do_files and no directory unless it has do_dirs; the scan goes on
\* past such a rule, so an entry with an eligible rule is governed by one.
C5_FlagOffNeverAlters ==
    [][Len(visits') = Len(visits) + 1 =>
          LET v == visits'[Len(visits')]
          IN  /\ v.rule > 0 => FlagFor(regexp[v.rule], v.fspath)
              /\ Eligible(v.fspath) # {} => v.rule > 0
              /\ \A n \in Nodes :
                    disk'[n] # disk[n] =>
                       /\ v.rule > 0
                       /\ Kind(n) = "file" => regexp[v.rule].do_files
                       /\ Kind(n) = "dir" => regexp[v.rule].do_dirs]_vars

\* C5 witness: an entry's path matched a rule scanned earlier whose flag for
\* the entry's type is false, and the rule found further on changed the entry.
C5_Witness ==
    /\ Walking
    /\ \E k \in 1..Len(visits) :
          LET v == visits[k]
          IN  /\ v.rule > 1
              /\ v.after # v.fspath
              /\ \E j \in 1..(v.rule - 1) :
                    /\ PatMatch(regexp[j], v.fspath.path)
                    /\ ~FlagFor(regexp[j], v.fspath)

\* The arguments are rejected: an unparseable debug, a root that is no
\* directory, a regexp that is no list, or a declaration at any position that
\* is no mapping or cannot be compiled.
BadArgs ==
    \/ args.debug_given /\ ~to_bool(args.debug).ok
    \/ ~isdir(args.root_path, target)
    \/ args.regexp_kind # "list"
    \/ \E k \in 1..Len(args.regexp) :
          \/ ~args.regexp[k].isdict
          \/ ~PermissionRegex(args.root_path, args.regexp[k].kw, k).ok

\* A rule compiled so far would change an entry of the tree as it is now.
WouldChange ==
    \E n \in {"r", "d", "g", "f"} :
        LET fspath == collect_path_data(disk, EntryPath(args.root_path, n, target), target)
        IN  \E i \in Eligible(fspath) : NumDiffer(regexp[i], fspath) > 0

\* C6: when the arguments are rejected, whatever the position of the bad
\* declaration, no chmod or chown is ever issued, the tree stays as it was,
\* the walk is never started and no result is written.
C6_AllOrNothing ==
    BadArgs => /\ ops = 0
               /\ disk = disk0
               /\ ~result.emitted
               /\ ~Walking

\* C6 witness: the run failed on a declaration that comes after a valid one
\* which would have changed the tree.
C6_Witness ==
    /\ pc = "failed"
    /\ idx > 1
    /\ WouldChange

\* C7: changed is true exactly when some entry visited so far had an
\* attribute, specified by its governing rule for its type, that differed
\* from the record read at the visit; the result reports that value.
C7_ChangedFlag ==
    Walking =>
        /\ changed = (\E k \in 1..Len(visits) : VisitDiffers(visits[k]))
        /\ pc = "done" => result.changed = changed

\* C7 witness: a completed run reports changed = true although the last
\* entry visited had nothing to change.
C7_Witness ==
    /\ pc = "done"
    /\ result.changed
    /\ Len(visits) > 1
    /\ ~VisitDiffers(visits[Len(visits)])

\* C8: with debug the log holds, in walk order, each visited path once per
\* attribute that differed; without debug the log stays empty and the result
\* carries no changed_list.
C8_ChangedList ==
    Walking =>
        /\ changed_list = (IF debug THEN ExpectedLog(visits) ELSE <<>>)
        /\ pc = "done" => /\ result.has_list = debug
                          /\ result.changed_list = changed_list

\* C8 witness: a completed debug run whose log names one path three times
\* and another path as well.
C8_Witness ==
    /\ pc = "done"
    /\ result.has_list
    /\ \E i, j \in 1..Len(result.changed_list) :
          /\ Occurrences(result.changed_list, result.changed_list[i]) = 3
          /\ result.changed_list[j] # result.changed_list[i]

OtherSpelling(rp) == IF rp = RootPlain THEN RootSlash ELSE RootPlain

\* C9: for the same root given with or without a trailing separator every
\* rule matches the same entries; the pattern "/" matches the root entry and
\* no other, and ".*" matches every entry.
C9_TrailingSlashInsensitive ==
    Walking =>
        \A i \in 1..Len(regexp) :
        \A n \in {"r", "d", "g", "f"} :
            LET d == regexp[i].decl
                path == EntryPath(args.root_path, n, target)
                other == PermissionRegex(OtherSpelling(args.root_path),
                                         args.regexp[d].kw, d).pr
            IN  /\ PatMatch(regexp[i], path)
                     = PatMatch(other, EntryPath(OtherSpelling(args.root_path), n, target))
                /\ \A k \in 1..Len(regexp[i].regex_paths) :
                      /\ args.regexp[d].kw.paths[k] = <<"/">>
                            => (MatchHere(regexp[i].regex_paths[k], path) <=> n = "r")
                      /\ args.regexp[d].kw.paths[k] = <<".", "*">>
                            => MatchHere(regexp[i].regex_paths[k], path)

\* C10: the caller can select a run without mutation: a run the caller asked
\* to make that way issues no chmod or chown and leaves the tree as it was.
C10_DryRunSelectable ==
    args.check_mode => (ops = 0 /\ disk = disk0)

\* ------------------------------------------------ where C1 to C4 do hold
\* No symbolic link among the entries and every mode of a rule within the
\* permission bits.
PlainCase ==
    /\ target = NoNode
    /\ \A i \in 1..Len(regexp) :
          /\ regexp[i].file_mode.set => regexp[i].file_mode.v <= PermBits
          /\ regexp[i].dir_mode.set => regexp[i].dir_mode.v <= PermBits

NoLinkCase == target = NoNode

C1_PlainCase == PlainCase => C1_LastMatchWins

C2_NoLinkCase == NoLinkCase => C2_OnlySpecifiedTouched

C3_NoLinkCase == NoLinkCase => C3_UnmatchedUntouched

C4_PlainCase == PlainCase => C4_SecondRunUnchanged

====
